---- MODULE Spec2Model ----
(***************************************************************************)
(* Model of upup/pkg/fi/cloudup/awstasks/instance.go: the Instance task's  *)
(* Find / CheckChanges / RenderAWS handlers, run pass after pass against   *)
(* an EC2 provider whose instances also change behind the task's back.     *)
(*                                                                         *)
(* Abstractions:                                                           *)
(*  - a startup payload (UserData) is represented by its length in bytes;  *)
(*    NoUserData stands for a nil resource;                                *)
(*  - the only tag modelled is the Name tag (Run adds it to e.Tags);       *)
(*  - e.Subnet is taken to be non-nil and fi.ResourceAsBytes not to fail;  *)
(*  - the provider never returns an instance without an InstanceId;        *)
(*  - the network attachments of an instance are given with each answer of *)
(*    the list query, not kept with the instance: the provider assigns and *)
(*    releases public addresses as it sees fit.                            *)
(***************************************************************************)
EXTENDS Integers, Sequences, FiniteSets, TLC

VARIABLES instances, e, a, changes, pc, last, ret, calls, request, undisturbed,
          attachments

vars == <<instances, e, a, changes, pc, last, ret, calls, request, undisturbed,
          attachments>>

\* ------------------------------------------------------------ bounds
\* Most instances the provider ever holds (instance ids are 1..MaxInstances).
MaxInstances == 2

\* ------------------------------------------------------------ constants
MaxUserDataSize == 16384

Nil == "nil"
NoID == 0
NoUserData == -1

Names == {"node-1"}
AMIs == {"ami-1", "ami-2"}
\* The images of the instances somebody else launches.
ExternalAMIs == {"ami-2"}
ImageRefs == {"X", "ami-1"}
KnownTypes == {"m3.medium"}
InstanceTypes == {"m3.medium", "bogus"}
UserDataSizes == {NoUserData, MaxUserDataSize, MaxUserDataSize + 1}

\* Variant: the filter lets terminated instances through.
FilterStatesWithTerminated ==
    {"pending", "running", "stopping", "stopped", "terminated"}

\* Variant: the filter leaves pending instances out.
FilterStatesWithoutPending == {"running", "stopping", "stopped"}

\* The instance-state-name values of the filter Find appends.
FilterStates == {"pending", "running", "stopping", "stopped"}
\* The lifecycle states an instance of the model is ever in: "pending" when the
\* task has launched it, "running" when somebody else has, "terminated" in the end.
InstanceStates == {"pending", "running", "terminated"}

\* Return values of the handlers.
OK == "ok"
ErrList == "error listing instances"
ErrMultiple == "found multiple Instances with name"
ErrAttr == "error querying EC2 for user metadata"
ErrDecode == "error decoding EC2 UserData"
ErrRequiredName == "RequiredField(Name)"
ErrRequiredImageID == "RequiredField(ImageID)"
ErrResolve == "ResolveImage error"
ErrEphemeral == "buildEphemeralDevices error"
ErrTooLarge == "Instance UserData was too large"
ErrRun == "error creating Instance"
ErrTags == "AddAWSTags error"
Panic == "panic: nil pointer dereference"
\* What Find may return when one of its queries fails.
QueryErrors == {ErrList, ErrAttr, ErrDecode}

\* ------------------------------------------------------------ provider
IDs == 1..Len(instances)

\* cloud.BuildFilters(e.Name): a tag:Name filter when the name is present.
BuildFilters(name, inst) == name = Nil \/ inst.name = name

\* A provider call as the task sees it: the operation, its argument, its answer.
Call(op, arg, res) == [op |-> op, arg |-> arg, res |-> res]
Ops(cs) == [k \in DOMAIN cs |-> cs[k].op]

\* The filtered list query of Find (lines 62-68): the ids of the instances that pass
\* the tag filters and the instance-state-name filter, in id order.
DescribeInstances(name, insts) ==
    SelectSeq([i \in 1..Len(insts) |-> i],
              LAMBDA i : BuildFilters(name, insts[i]) /\ insts[i].state \in FilterStates)

\* How the provider groups the listed instances into the response's reservations:
\* all in one reservation, or one reservation for each.
Groupings == {"one", "each"}
Reservations(ids, grouping) ==
    IF grouping = "each" THEN [k \in 1..Len(ids) |-> <<ids[k]>>]
    ELSE IF ids = <<>> THEN <<>> ELSE <<ids>>

\* Variant: only the first reservation of the response is read.
FirstReservationOnly(reservations) ==
    IF reservations = <<>> THEN <<>> ELSE Head(reservations)

\* Lines 73-80: the instances of all reservations of the response.
RECURSIVE AllInstances(_)
AllInstances(reservations) ==
    IF reservations = <<>> THEN <<>>
    ELSE Head(reservations) \o AllInstances(Tail(reservations))

\* base64.StdEncoding.EncodeToString / DecodeString on a payload of n bytes,
\* kept as the length of the text: 4 characters for every 3 bytes, padded.
EncodedLen(n) == 4 * ((n + 2) \div 3)
Encode(n) == [b64 |-> n, len |-> EncodedLen(n)]
Corrupt == [b64 |-> NoUserData, len |-> 1]
NoAttr == [b64 |-> NoUserData, len |-> 0]
DecodeFails(v) == v.len % 4 # 0
Decode(v) == v.b64

\* The RunInstancesInput before RenderAWS has built one.
NoRequest == [ImageId |-> Nil, InstanceType |-> Nil, UserData |-> NoAttr]

\* buildEphemeralDevices(e.InstanceType) fails for a machine type it does not know.
buildEphemeralDevices(type) == IF type \in KnownTypes THEN OK ELSE ErrEphemeral

\* cloud.AddTags(e.Name, e.Tags) of Run: the tags applied carry the Name tag.
Tags(ee) == ee.Name

\* t.AddAWSTags(id, tags): sets the given tags on the instance, keeps the others.
AddAWSTags(insts, id, tags) ==
    IF tags = Nil \/ id \notin 1..Len(insts) THEN insts
    ELSE [insts EXCEPT ![id].name = tags]

\* ------------------------------------------------------------ descriptors
\* The nil *Instance: what Find returns for "absent" and what the create path gets as a.
Absent ==
    [ID |-> NoID, Name |-> Nil, ImageID |-> Nil, InstanceType |-> Nil, UserData |-> NoUserData,
     AssociatePublicIP |-> Nil]

\* ------------------------------------------------------------ Find
\* Outcomes of cloud.ResolveImage: an error, no image and no error, or an image.
ResolveOutcomes == {"error", "notfound"} \cup AMIs
\* Outcomes of DescribeInstanceAttribute: an error, the stored attribute, or a
\* value that is not base64.
AttrOutcomes == {"error", "stored", "corrupt"}

\* Variant: any successful resolution suppresses the difference.
ReportedImageAnyResolved(desired, actualImage, img) ==
    IF desired # Nil /\ actualImage # Nil /\ actualImage # desired
       /\ img \notin {"error", "notfound"}
    THEN desired
    ELSE actualImage

\* Lines 150-161: the image reference reported for the instance.
ReportedImage(desired, actualImage, img) ==
    IF desired # Nil /\ actualImage # Nil /\ actualImage # desired
       /\ img \notin {"error", "notfound"} /\ img = actualImage
    THEN desired
    ELSE actualImage

\* Whether Find calls cloud.ResolveImage (line 151).
ResolvesImage(desired, actualImage) ==
    desired # Nil /\ actualImage # Nil /\ actualImage # desired

\* i.NetworkInterfaces as the list query gives them, each attachment by its
\* Association: "none" (a nil Association), "noip" (an Association without
\* PublicIp) or "public" (an Association with a PublicIp).
NetworkInterfaces == {<<>>, <<"none">>, <<"noip">>, <<"noip", "public">>}

\* Lines 134-140: the loop reads ni.Association.PublicIp of every attachment, which
\* ends Find abnormally at an attachment whose Association is nil.
PublicIPPanics(nis) == \E k \in DOMAIN nis : nis[k] = "none"
AssociatePublicIP(nis) ==
    IF \E k \in DOMAIN nis : nis[k] = "public" THEN "true" ELSE "false"

\* No attachments were read: Find did not get as far as the loop.
NotRead == <<"-">>

\* Lines 82-88: what the number of listed instances decides.
Multiplicity(n) == IF n = 0 THEN "absent" ELSE IF n # 1 THEN "multiple" ELSE "one"

\* The answer of cloud.ResolveImage as recorded with the call.
ResolveCall(ref, img) == Call("ResolveImage", ref, img)

\* Variant: e.ID is set as soon as the one instance is listed, before the
\* attribute query.
FindResultEarlyID(ee, insts, listOK, grouping, attr, nis, img) ==
    LET found == AllInstances(Reservations(DescribeInstances(ee.Name, insts), grouping))
        fail(err, cs) == [a |-> Absent, e |-> ee, ret |-> err, calls |-> cs]
        list == Call("DescribeInstances", ee.Name, IF listOK THEN "ok" ELSE "error")
    IN  IF ~listOK THEN fail(ErrList, <<list>>)
        ELSE IF Multiplicity(Len(found)) = "absent"
             THEN fail(OK, <<list>>)
        ELSE IF Multiplicity(Len(found)) = "multiple"
             THEN fail(IF ee.Name = Nil THEN Panic ELSE ErrMultiple, <<list>>)
        ELSE LET id == found[1]
                 i == insts[id]
                 value == IF attr = "corrupt" THEN Corrupt ELSE i.userData
                 cs == <<list, Call("DescribeInstanceAttribute", ToString(id), attr)>>
                 failWithID(err) == [fail(err, cs) EXCEPT !.e = [ee EXCEPT !.ID = id]]
             IN  IF attr = "error" THEN failWithID(ErrAttr)
                 ELSE IF value # NoAttr /\ DecodeFails(value) THEN failWithID(ErrDecode)
                 ELSE IF PublicIPPanics(nis) THEN failWithID(Panic)
                 ELSE [a |-> [ID |-> id,
                              Name |-> i.name,
                              ImageID |-> ReportedImage(ee.ImageID, i.image, img),
                              InstanceType |-> i.type,
                              UserData |-> IF value = NoAttr THEN NoUserData ELSE Decode(value),
                              AssociatePublicIP |-> AssociatePublicIP(nis)],
                       e |-> [ee EXCEPT !.ID = id],
                       ret |-> OK,
                       calls |-> IF ResolvesImage(ee.ImageID, i.image)
                                 THEN Append(cs, ResolveCall(ee.ImageID, img)) ELSE cs]

\* The whole of Find for desired descriptor ee against the provider's insts, the
\* provider calls answering as listOK, attr and img say.
FindResult(ee, insts, listOK, grouping, attr, nis, img) ==
    LET found == AllInstances(Reservations(DescribeInstances(ee.Name, insts), grouping))
        fail(err, cs) == [a |-> Absent, e |-> ee, ret |-> err, calls |-> cs]
        list == Call("DescribeInstances", ee.Name, IF listOK THEN "ok" ELSE "error")
    IN  IF ~listOK THEN fail(ErrList, <<list>>)
        ELSE IF Multiplicity(Len(found)) = "absent"
             THEN fail(OK, <<list>>)
        ELSE IF Multiplicity(Len(found)) = "multiple"
             THEN fail(IF ee.Name = Nil THEN Panic ELSE ErrMultiple, <<list>>)
        ELSE LET id == found[1]
                 i == insts[id]
                 value == IF attr = "corrupt" THEN Corrupt ELSE i.userData
                 cs == <<list, Call("DescribeInstanceAttribute", ToString(id), attr)>>
             IN  IF attr = "error" THEN fail(ErrAttr, cs)
                 ELSE IF value # NoAttr /\ DecodeFails(value) THEN fail(ErrDecode, cs)
                 ELSE IF PublicIPPanics(nis) THEN fail(Panic, cs)
                 ELSE [a |-> [ID |-> id,
                              Name |-> i.name,
                              ImageID |-> ReportedImage(ee.ImageID, i.image, img),
                              InstanceType |-> i.type,
                              UserData |-> IF value = NoAttr THEN NoUserData ELSE Decode(value),
                              AssociatePublicIP |-> AssociatePublicIP(nis)],
                       e |-> [ee EXCEPT !.ID = id],
                       ret |-> OK,
                       calls |-> IF ResolvesImage(ee.ImageID, i.image)
                                 THEN Append(cs, ResolveCall(ee.ImageID, img)) ELSE cs]

\* Whether Find gets as far as the loop over i.NetworkInterfaces (line 135): one
\* instance is listed and its startup payload is fetched and decoded.
ReadsAttachments(ee, insts, listOK, grouping, attr) ==
    LET found == AllInstances(Reservations(DescribeInstances(ee.Name, insts), grouping))
    IN  /\ listOK
        /\ Multiplicity(Len(found)) = "one"
        /\ attr = "stored"
        /\ insts[found[1]].userData # NoAttr => ~DecodeFails(insts[found[1]].userData)

\* ------------------------------------------------------------ CheckChanges
\* The delta the driver hands over: the fields desired sets and actual differs in.
BuildChanges(aa, ee) ==
    {f \in {"Name", "ImageID", "InstanceType", "UserData"} :
        ee[f] # Absent[f] /\ ee[f] # aa[f]}

\* Variant: the name is required on the create path too.
CheckChangesResultAlways(aa, ee, ch) ==
    IF ee.Name = Nil THEN ErrRequiredName ELSE OK

\* Lines 189-196.
CheckChangesResult(aa, ee, ch) ==
    IF aa # Absent
    THEN IF ee.Name = Nil THEN ErrRequiredName ELSE OK
    ELSE OK

\* ------------------------------------------------------------ RenderAWS
\* Variant: the ceiling is one byte too high.
TooLargeOffByOne(n) == n > MaxUserDataSize + 1

\* Line 253: the payload is over the ceiling.
TooLarge(n) == n > MaxUserDataSize

\* Variant: the image reference is not checked.
MissingImageIDUnchecked(ee) == FALSE

\* Line 200: the create path needs an image reference.
MissingImageID(ee) == ee.ImageID = Nil

\* The instance RunInstances launches for a request: pending, and without tags.
NewInstance(req) ==
    [state |-> "pending", name |-> Nil, image |-> req.ImageId,
     type |-> req.InstanceType, userData |-> req.UserData]

\* Lines 271-276: RunInstances answers with the new instance, whose id the provider
\* assigns, and the id is stored in e.ID.
Launch(ee, insts, req) ==
    [e |-> [ee EXCEPT !.ID = Len(insts) + 1],
     instances |-> Append(insts, NewInstance(req))]

\* Variant: a failed RunInstances call is made a second time before giving up.
CreateResultRetrying(ee, insts, img, runOK) ==
    LET stop(err, cs) ==
            [e |-> ee, instances |-> insts, ret |-> err, calls |-> cs, request |-> NoRequest]
        req == [ImageId |-> img, InstanceType |-> ee.InstanceType,
                UserData |-> IF ee.UserData = NoUserData THEN NoAttr ELSE Encode(ee.UserData)]
        resolve == ResolveCall(ee.ImageID, img)
        run == Call("RunInstances", img, IF runOK THEN "ok" ELSE "error")
    IN  IF MissingImageID(ee) THEN stop(ErrRequiredImageID, <<>>)
        ELSE IF img = "error" THEN stop(ErrResolve, <<resolve>>)
        ELSE IF ee.Name = Nil \/ img = "notfound" THEN stop(Panic, <<resolve>>)
        ELSE IF buildEphemeralDevices(ee.InstanceType) # OK
             THEN stop(ErrEphemeral, <<resolve>>)
        ELSE IF ee.UserData # NoUserData /\ TooLarge(ee.UserData)
             THEN stop(ErrTooLarge, <<resolve>>)
        ELSE IF ~runOK
             THEN [stop(ErrRun, <<resolve, run, run>>) EXCEPT !.request = req]
        ELSE [e |-> Launch(ee, insts, req).e,
              instances |-> Launch(ee, insts, req).instances,
              ret |-> OK,
              calls |-> <<resolve, run>>,
              request |-> req]

\* Lines 199-277: the create path, up to and including RunInstances.
CreateResult(ee, insts, img, runOK) ==
    LET stop(err, cs) ==
            [e |-> ee, instances |-> insts, ret |-> err, calls |-> cs, request |-> NoRequest]
        req == [ImageId |-> img, InstanceType |-> ee.InstanceType,
                UserData |-> IF ee.UserData = NoUserData THEN NoAttr ELSE Encode(ee.UserData)]
        resolve == ResolveCall(ee.ImageID, img)
        run == Call("RunInstances", img, IF runOK THEN "ok" ELSE "error")
    IN  IF MissingImageID(ee) THEN stop(ErrRequiredImageID, <<>>)
        ELSE IF img = "error" THEN stop(ErrResolve, <<resolve>>)
        ELSE IF ee.Name = Nil \/ img = "notfound" THEN stop(Panic, <<resolve>>)
        ELSE IF buildEphemeralDevices(ee.InstanceType) # OK
             THEN stop(ErrEphemeral, <<resolve>>)
        ELSE IF ee.UserData # NoUserData /\ TooLarge(ee.UserData)
             THEN stop(ErrTooLarge, <<resolve>>)
        ELSE IF ~runOK
             THEN [stop(ErrRun, <<resolve, run>>) EXCEPT !.request = req]
        ELSE [e |-> Launch(ee, insts, req).e,
              instances |-> Launch(ee, insts, req).instances,
              ret |-> OK,
              calls |-> <<resolve, run>>,
              request |-> req]

\* Line 279: the tag call that ends RenderAWS, on whatever e.ID now is.
TagResult(r, tagOK) ==
    [r EXCEPT !.calls = Append(r.calls, Call("AddAWSTags", ToString(r.e.ID),
                                             IF tagOK THEN "ok" ELSE "error")),
              !.ret = IF tagOK THEN OK ELSE ErrTags,
              !.instances = IF tagOK THEN AddAWSTags(r.instances, r.e.ID, Tags(r.e))
                            ELSE r.instances]

\* Variant: the update path returns without the tag call.
RenderResultNoTagOnUpdate(aa, ee, insts, img, runOK, tagOK) ==
    IF aa = Absent
    THEN LET r == CreateResult(ee, insts, img, runOK)
         IN  IF r.ret = OK THEN TagResult(r, tagOK) ELSE r
    ELSE [e |-> ee, instances |-> insts, ret |-> OK, calls |-> <<>>, request |-> NoRequest]

\* Variant: the create path is taken whether or not an actual instance exists.
RenderResultIgnoringActual(aa, ee, insts, img, runOK, tagOK) ==
    LET r == CreateResult(ee, insts, img, runOK)
    IN  IF r.ret = OK THEN TagResult(r, tagOK) ELSE r

\* Variant: the image is resolved before the branch on the actual instance.
RenderResultResolvingOnUpdate(aa, ee, insts, img, runOK, tagOK) ==
    IF aa = Absent
    THEN LET r == CreateResult(ee, insts, img, runOK)
         IN  IF r.ret = OK THEN TagResult(r, tagOK) ELSE r
    ELSE TagResult([e |-> ee, instances |-> insts, ret |-> OK,
                    calls |-> <<ResolveCall(ee.ImageID, img)>>,
                    request |-> NoRequest], tagOK)

\* The whole of RenderAWS.
RenderResult(aa, ee, insts, img, runOK, tagOK) ==
    IF aa = Absent
    THEN LET r == CreateResult(ee, insts, img, runOK)
         IN  IF r.ret = OK THEN TagResult(r, tagOK) ELSE r
    ELSE TagResult([e |-> ee, instances |-> insts, ret |-> OK, calls |-> <<>>,
                    request |-> NoRequest], tagOK)

\* ------------------------------------------------------------ Init
Descriptors ==
    [ID : {NoID}, Name : Names \cup {Nil}, ImageID : ImageRefs \cup {Nil},
     InstanceType : InstanceTypes, UserData : UserDataSizes]

Init ==
    /\ instances = <<>>
    /\ e \in Descriptors
    /\ a = Absent
    /\ changes = {}
    /\ pc = "Find"
    /\ last = "none"
    /\ ret = OK
    /\ calls = <<>>
    /\ request = NoRequest
    /\ attachments = NotRead
    /\ undisturbed = -1

\* ------------------------------------------------------------ the task's steps
\* e.Find(c), called by the driver at the start of a pass.
Find ==
    /\ pc = "Find"
    /\ \E listOK \in BOOLEAN :
       \E grouping \in IF listOK /\ Len(DescribeInstances(e.Name, instances)) > 1
                        THEN Groupings ELSE {"one"} :
       \E attr \in IF listOK THEN AttrOutcomes ELSE {"error"} :
       \E nis \in IF attr = "stored" THEN NetworkInterfaces ELSE {<<>>} :
       \E img \in IF attr = "stored" /\ ~PublicIPPanics(nis) THEN ResolveOutcomes ELSE {"error"} :
         LET r == FindResult(e, instances, listOK, grouping, attr, nis, img)
         IN  /\ a' = r.a
             /\ e' = r.e
             /\ ret' = r.ret
             /\ calls' = r.calls
             /\ pc' = IF r.ret = OK THEN "CheckChanges" ELSE "Find"
             /\ attachments' = IF ReadsAttachments(e, instances, listOK, grouping, attr)
                               THEN nis ELSE NotRead
    /\ last' = "Find"
    /\ request' = NoRequest
    /\ undisturbed' = IF undisturbed > 0 THEN undisturbed ELSE 0
    /\ UNCHANGED <<instances, changes>>

\* The driver computes the delta and calls CheckChanges(a, e, changes).
CheckChanges ==
    /\ pc = "CheckChanges"
    /\ changes' = BuildChanges(a, e)
    /\ ret' = CheckChangesResult(a, e, changes')
    /\ pc' = IF ret' = OK THEN "RenderAWS" ELSE "Find"
    /\ last' = "CheckChanges"
    /\ calls' = <<>>
    /\ attachments' = NotRead
    /\ UNCHANGED <<instances, e, a, request, undisturbed>>

\* RenderAWS(t, a, e, changes), called when CheckChanges passed. RunInstances
\* cannot succeed once the provider holds MaxInstances instances.
RenderAWS ==
    /\ pc = "RenderAWS"
    /\ \E img \in ResolveOutcomes :
       \E runOK \in IF img \in AMIs THEN BOOLEAN ELSE {FALSE} :
       \E tagOK \in IF runOK \/ a # Absent THEN BOOLEAN ELSE {FALSE} :
         /\ runOK => Len(instances) < MaxInstances
         /\ LET r == RenderResult(a, e, instances, img, runOK, tagOK)
            IN  /\ e' = r.e
                /\ instances' = r.instances
                /\ ret' = r.ret
                /\ calls' = r.calls
                /\ request' = r.request
                /\ undisturbed' =
                      IF undisturbed = 0 /\ r.ret = OK /\ a = Absent THEN r.e.ID
                      ELSE undisturbed
    /\ pc' = "Find"
    /\ last' = "RenderAWS"
    /\ attachments' = NotRead
    /\ UNCHANGED <<a, changes>>

\* ------------------------------------------------------------ the provider's own steps
\* What a step of the provider leaves of the task: the descriptors and the place in
\* the pass; the record of the last handler's return is of no use any more.
ProviderStep ==
    /\ last' = "provider"
    /\ ret' = OK
    /\ calls' = <<>>
    /\ request' = NoRequest
    /\ attachments' = NotRead
    /\ undisturbed' = -1
    /\ UNCHANGED <<e, a, changes, pc>>

\* Somebody else launches an instance, tagged with a name.
ExternalLaunch ==
    /\ Len(instances) < MaxInstances
    /\ \E n \in Names, img \in ExternalAMIs :
         instances' = Append(instances, [state |-> "running", name |-> n, image |-> img,
                                         type |-> "m3.medium", userData |-> NoAttr])
    /\ ProviderStep

\* An instance is terminated; a terminated one stays terminated.
Terminate ==
    /\ \E i \in IDs :
         /\ instances[i].state # "terminated"
         /\ instances' = [instances EXCEPT ![i].state = "terminated"]
    /\ ProviderStep

Next == Find \/ CheckChanges \/ RenderAWS \/ ExternalLaunch \/ Terminate

Spec == Init /\ [][Next]_vars

\* Passes of the one task one after the other, with nobody else launching
\* instances: instances come from RenderAWS alone, and may be terminated.
SequentialNext == Find \/ CheckChanges \/ RenderAWS \/ Terminate

SpecSequential == Init /\ [][SequentialNext]_vars

\* ------------------------------------------------------------ the startup payload
\* The startup payload byte by byte: e.UserData and a.UserData are sequences of
\* bytes here, request.UserData and the stored attribute are base64 texts
\* (sequences of characters), where the steps above keep lengths only.
MaxPayloadLen == 3
ByteValues == {0, 1, 77, 250, 255}
SmallPayloads == UNION {[1..n -> ByteValues] : n \in 0..MaxPayloadLen}
LargePayload(n) == [i \in 1..n |-> (i * 37) % 256]
Payloads == SmallPayloads \cup {LargePayload(MaxUserDataSize), LargePayload(MaxUserDataSize + 1)}

\* encoding/base64, StdEncoding: the alphabet and the padding character.
Alphabet ==
    << "A", "B", "C", "D", "E", "F", "G", "H", "I", "J", "K", "L", "M",
       "N", "O", "P", "Q", "R", "S", "T", "U", "V", "W", "X", "Y", "Z",
       "a", "b", "c", "d", "e", "f", "g", "h", "i", "j", "k", "l", "m",
       "n", "o", "p", "q", "r", "s", "t", "u", "v", "w", "x", "y", "z",
       "0", "1", "2", "3", "4", "5", "6", "7", "8", "9", "+", "/" >>
PadChar == "="
Pow(b, k) == IF k = 0 THEN 1 ELSE IF k = 1 THEN b ELSE IF k = 2 THEN b * b ELSE b * b * b
CharIndex(c) == (CHOOSE i \in 1..64 : Alphabet[i] = c) - 1

\* Variant: base64.RawStdEncoding, which leaves the padding out.
RawEncodeToString(d) ==
    LET n == Len(d)
        byte(i) == IF i <= n THEN d[i] ELSE 0
        group(g) == byte(3 * g + 1) * 65536 + byte(3 * g + 2) * 256 + byte(3 * g + 3)
    IN  [k \in 1..((4 * n + 2) \div 3) |->
            Alphabet[((group((k - 1) \div 4) \div Pow(64, 3 - ((k - 1) % 4))) % 64) + 1]]

\* Line 262, base64.StdEncoding.EncodeToString(d): every three bytes give four
\* characters of six bits each; a last group of one or two bytes gives two or
\* three characters and is padded to four.
EncodeToString(d) ==
    LET n == Len(d)
        byte(i) == IF i <= n THEN d[i] ELSE 0
        group(g) == byte(3 * g + 1) * 65536 + byte(3 * g + 2) * 256 + byte(3 * g + 3)
    IN  [k \in 1..(4 * ((n + 2) \div 3)) |->
            LET g == (k - 1) \div 4
                j == (k - 1) % 4
            IN  IF j > n - 3 * g
                THEN PadChar
                ELSE Alphabet[((group(g) \div Pow(64, 3 - j)) % 64) + 1]]

\* Line 115, base64.StdEncoding.DecodeString(value): the text is made of groups of
\* four characters of the alphabet, the last of which may end in one or two
\* padding characters; anything else is an error.
DecodeString(s) ==
    LET m == Len(s)
        pad == IF m >= 1 /\ s[m] = PadChar
               THEN IF m >= 2 /\ s[m - 1] = PadChar THEN 2 ELSE 1
               ELSE 0
        legal(c) == \E i \in 1..64 : Alphabet[i] = c
        sextet(k) == IF k > m - pad THEN 0 ELSE CharIndex(s[k])
        group(g) == sextet(4 * g + 1) * 262144 + sextet(4 * g + 2) * 4096
                    + sextet(4 * g + 3) * 64 + sextet(4 * g + 4)
    IN  IF m % 4 # 0 \/ \E k \in 1..(m - pad) : ~legal(s[k])
        THEN [err |-> TRUE, bytes |-> <<>>]
        ELSE [err |-> FALSE,
              bytes |-> [i \in 1..(3 * (m \div 4) - pad) |->
                           (group((i - 1) \div 3) \div Pow(256, 2 - ((i - 1) % 3))) % 256]]

\* A desired instance with a payload, at the start of RenderAWS on the create path.
UserDataInit ==
    /\ instances = <<>>
    /\ e \in [ID : {NoID}, Name : Names, ImageID : {"ami-1"}, InstanceType : KnownTypes,
              UserData : Payloads]
    /\ a = Absent
    /\ changes = {}
    /\ pc = "RenderAWS"
    /\ last = "none"
    /\ ret = OK
    /\ calls = <<>>
    /\ request = NoRequest
    /\ attachments = NotRead
    /\ undisturbed = -1

\* Lines 248-263 and 271-279: the payload is checked against the ceiling, encoded
\* into the request, and the instance is launched with it and tagged.
RenderUserData ==
    /\ pc = "RenderAWS"
    /\ IF TooLarge(Len(e.UserData))
       THEN /\ ret' = ErrTooLarge
            /\ pc' = "done"
            /\ UNCHANGED <<e, instances, request>>
       ELSE /\ request' = [ImageId |-> e.ImageID, InstanceType |-> e.InstanceType,
                           UserData |-> EncodeToString(e.UserData)]
            /\ instances' = Append(instances,
                                   [NewInstance(request') EXCEPT !.name = Tags(e)])
            /\ e' = [e EXCEPT !.ID = Len(instances')]
            /\ ret' = OK
            /\ pc' = "Find"
    /\ last' = "RenderAWS"
    /\ UNCHANGED <<a, changes, calls, attachments, undisturbed>>

\* Lines 105-121 and 148: the stored attribute of the instance is decoded into
\* actual.UserData.
FindUserData ==
    /\ pc = "Find"
    /\ LET i == instances[e.ID]
           r == DecodeString(i.userData)
       IN  IF r.err
           THEN ret' = ErrDecode /\ a' = Absent
           ELSE /\ ret' = OK
                /\ a' = [ID |-> e.ID, Name |-> i.name, ImageID |-> i.image,
                         InstanceType |-> i.type, UserData |-> r.bytes,
                         AssociatePublicIP |-> "false"]
    /\ pc' = "done"
    /\ last' = "Find"
    /\ UNCHANGED <<instances, e, changes, calls, request, attachments, undisturbed>>

UserDataNext == RenderUserData \/ FindUserData

SpecUserData == UserDataInit /\ [][UserDataNext]_vars

\* ------------------------------------------------------------ TerraformLink
\* terraform.LiteralSelfLink(resourceType, name): the reference to the resource of
\* that type and name in the generated document.
LiteralSelfLink(resourceType, name) == resourceType \o "." \o name \o ".id"

\* Variant: the reference is made from the provider's ID of the instance.
TerraformLinkFromID(ee) == LiteralSelfLink("aws_instance", ToString(ee.ID))

\* Lines 282-284: the reference is made from *e.Name, which is dereferenced
\* without a test.
TerraformLinkResult(ee) ==
    IF ee.Name = Nil THEN Panic ELSE LiteralSelfLink("aws_instance", ee.Name)

\* The descriptors TerraformLink may be called on, before or after a pass has set
\* the ID, and the provider states it may be called in.
LinkDescriptors ==
    [ID : {NoID} \cup 1..MaxInstances, Name : Names \cup {"node-2", Nil},
     ImageID : ImageRefs \cup {Nil}, InstanceType : InstanceTypes, UserData : UserDataSizes]
LinkProviderStates ==
    {<<>>} \cup {<<[state |-> st, name |-> n, image |-> "ami-1", type |-> "m3.medium",
                    userData |-> NoAttr]>> : st \in InstanceStates, n \in Names}

TerraformInit ==
    /\ instances \in LinkProviderStates
    /\ e \in LinkDescriptors
    /\ a = Absent
    /\ changes = {}
    /\ pc = "TerraformLink"
    /\ last = "none"
    /\ ret = OK
    /\ calls = <<>>
    /\ request = NoRequest
    /\ attachments = NotRead
    /\ undisturbed = -1

\* e.TerraformLink(), called by the Terraform target when another task refers to
\* the instance.
TerraformLink ==
    /\ pc = "TerraformLink"
    /\ ret' = TerraformLinkResult(e)
    /\ calls' = <<>>
    /\ pc' = "done"
    /\ last' = "TerraformLink"
    /\ UNCHANGED <<instances, e, a, changes, request, attachments, undisturbed>>

TerraformNext == TerraformLink

SpecTerraform == TerraformInit /\ [][TerraformNext]_vars

\* ------------------------------------------------------------ properties
\* The non-terminated lifecycle states, and the instances in one of them that carry
\* the name.
NonTerminated == {"pending", "running", "stopping", "stopped"}
LiveMatches(name) ==
    {i \in IDs : instances[i].name = name /\ instances[i].state \in NonTerminated}
TerminatedMatches(name) ==
    {i \in IDs : instances[i].name = name /\ instances[i].state = "terminated"}
ListAnswered == calls'[1].res = "ok"

\* C1: when no non-terminated instance carries the desired name, a Find whose list
\* query is answered returns absent (no descriptor, no error) and leaves the desired
\* descriptor alone, terminated instances of that name notwithstanding; the only
\* error it can return is the failure of the list query itself.
C1_ZeroMatchesAbsent ==
    [][(Find /\ e.Name # Nil /\ LiveMatches(e.Name) = {})
         => /\ a' = Absent
            /\ e' = e
            /\ ret' \in {OK, ErrList}
            /\ ListAnswered => ret' = OK]_vars

C1_Witness ==
    /\ last = "Find" /\ ret = OK /\ a = Absent /\ calls[1].res = "ok"
    /\ e.Name # Nil
    /\ LiveMatches(e.Name) = {}
    /\ TerminatedMatches(e.Name) # {}

\* C2: when two or more non-terminated instances carry the desired name, in
\* whatever reservations the response holds them, Find returns no descriptor and
\* an error, which is the multiplicity error whenever the list query is answered;
\* the desired descriptor keeps its ID.
C2_MultipleMatchesFail ==
    [][(Find /\ e.Name # Nil /\ Cardinality(LiveMatches(e.Name)) >= 2)
         => /\ a' = Absent
            /\ e' = e
            /\ ret' \in {ErrMultiple, ErrList}
            /\ ListAnswered => ret' = ErrMultiple]_vars

C2_Witness ==
    /\ last = "Find" /\ ret = ErrMultiple /\ a = Absent
    /\ e.Name # Nil
    /\ Cardinality(LiveMatches(e.Name)) >= 2

\* C3: once a pass has created an instance, and while the provider is left alone,
\* every further pass finds that instance and does nothing but re-apply the tags:
\* Find returns the created instance unless one of its queries fails, and RenderAWS
\* makes the tag call alone, launches nothing, and leaves the provider's instances
\* and the desired descriptor as they were.
C3_Idempotent ==
    [][undisturbed > 0 =>
         /\ e.ID = undisturbed
         /\ Find => /\ ret' \in {OK} \cup QueryErrors
                    /\ ret' = OK => a'.ID = undisturbed
                    /\ e' = e
         /\ RenderAWS => /\ a # Absent
                         /\ Ops(calls') = <<"AddAWSTags">>
                         /\ instances' = instances
                         /\ e' = e]_vars

\* What RenderAWS leaves behind when it has made no run/create and no tag call.
NothingLaunched ==
    /\ instances' = instances
    /\ e' = e
    /\ request' = NoRequest
    /\ \A k \in DOMAIN calls' : calls'[k].op \notin {"RunInstances", "AddAWSTags"}

\* C4 as stated: on the create path a payload over MaxUserDataSize makes RenderAWS
\* fail before any provider call is made.
C4_Original ==
    [][(RenderAWS /\ a = Absent /\ e.UserData > MaxUserDataSize)
         => ret' # OK /\ calls' = <<>>]_vars

\* C4 amended: on the create path a payload over MaxUserDataSize never lets
\* RenderAWS succeed, and no run/create call and no tag call is made: nothing is
\* launched and no ID is captured. The only provider call that can precede the
\* failure is the image resolution.
C4_TooLargeNeverLaunches ==
    [][(RenderAWS /\ a = Absent /\ e.UserData > MaxUserDataSize)
         => /\ ret' # OK
            /\ NothingLaunched
            /\ Ops(calls') \in {<<>>, <<"ResolveImage">>}]_vars

C4_Witness ==
    /\ last = "RenderAWS" /\ a = Absent
    /\ e.UserData = MaxUserDataSize + 1
    /\ ret = ErrTooLarge
    /\ Ops(calls) = <<"ResolveImage">>

\* C5 as stated: once the desired descriptor's ID is set, no step sets it to
\* another value.
C5_Original == [][e.ID # NoID => e'.ID = e.ID]_vars

\* C5 amended: the ID, once set, stays as it is for as long as the instance it
\* names is the one non-terminated instance carrying the name: Find then never
\* reports absent, returns that ID whenever it returns a descriptor, and keeps
\* e.ID; CheckChanges keeps e.ID; RenderAWS keeps e.ID on the update path and on
\* every failure before the run/create call succeeds. (When that instance is
\* terminated and another one carries the name, the ID is that of the other one.)
C5_IdentityStableWhileMatched ==
    [][e.ID # NoID =>
         /\ (Find /\ e.Name # Nil /\ LiveMatches(e.Name) = {e.ID})
              => /\ e'.ID = e.ID
                 /\ ~(ret' = OK /\ a' = Absent)
                 /\ ret' = OK => a'.ID = e.ID
         /\ CheckChanges => e'.ID = e.ID
         /\ (RenderAWS /\ a # Absent) => e'.ID = e.ID
         /\ (RenderAWS /\ e'.ID # e.ID)
              => /\ a = Absent
                 /\ \E k \in DOMAIN calls' :
                      calls'[k].op = "RunInstances" /\ calls'[k].res = "ok"
                 /\ e'.ID = Len(instances')]_vars

C5_Witness ==
    /\ last = "Find" /\ ret = OK
    /\ undisturbed = 2
    /\ a.ID = 2 /\ e.ID = 2
    /\ instances[1].state = "terminated" /\ instances[1].name = e.Name
    /\ LiveMatches(e.Name) = {2}

\* C6: a RenderAWS that succeeds on the create path resolves the desired image
\* reference, launches one instance with the resolved image and the desired
\* instance type, tags it afterwards, and stores the id the provider assigned in
\* e.ID; and with the provider left alone, a later Find returns, unless one of its
\* queries fails, exactly that instance: the descriptor's ID is the captured ID.
C6_CreateThenFind ==
    [][/\ (RenderAWS /\ a = Absent /\ ret' = OK)
            => /\ Len(instances') = Len(instances) + 1
               /\ e'.ID = Len(instances')
               /\ e' = [e EXCEPT !.ID = e'.ID]
               /\ Ops(calls') = <<"ResolveImage", "RunInstances", "AddAWSTags">>
               /\ calls'[1].arg = e.ImageID
               /\ request'.ImageId = calls'[1].res
               /\ request'.InstanceType = e.InstanceType
               /\ instances'[e'.ID].image = request'.ImageId
               /\ instances'[e'.ID].type = e.InstanceType
               /\ instances'[e'.ID].name = e.Name
               /\ calls'[3].arg = ToString(e'.ID)
       /\ (Find /\ undisturbed > 0)
            => /\ ret' \in {OK} \cup QueryErrors
               /\ ret' = OK => /\ a'.ID = undisturbed
                               /\ e'.ID = undisturbed
                               /\ a'.Name = e.Name]_vars

\* How often an operation occurs among the calls of the last handler.
Count(cs, op) == Cardinality({k \in DOMAIN cs : cs[k].op = op})

\* C7: a RenderAWS that returns success has made the tag call exactly once, on
\* e.ID, as its last provider call: after ResolveImage and RunInstances on the create
\* path, alone on the update path, whatever the delta.
C7_TagOncePerSuccess ==
    (last = "RenderAWS" /\ ret = OK)
      => /\ Count(calls, "AddAWSTags") = 1
         /\ calls[Len(calls)] = Call("AddAWSTags", ToString(e.ID), "ok")
         /\ instances[e.ID].name = e.Name
         /\ a = Absent => Ops(calls) = <<"ResolveImage", "RunInstances", "AddAWSTags">>
         /\ a # Absent => Ops(calls) = <<"AddAWSTags">>

C7_Witness ==
    /\ last = "RenderAWS" /\ ret = OK
    /\ a # Absent
    /\ changes = {}
    /\ Count(calls, "AddAWSTags") = 1

\* C8: when Find returns the descriptor of the one matching instance and the
\* desired image reference differs from the instance's image id, Find has resolved
\* the desired reference, and the descriptor's image reference is the desired
\* reference exactly when the resolution answered with the instance's image id;
\* otherwise (another id, not found, an error) it is the instance's own image id.
\* A Find that has called ResolveImage returns success whatever the answer.
C8_ImageAntiChurn ==
    (last = "Find")
      => /\ Count(calls, "ResolveImage") > 0 => (ret = OK /\ a # Absent)
         /\ (ret = OK /\ a # Absent /\ e.ImageID # Nil
               /\ instances[a.ID].image # e.ImageID)
              => /\ Ops(calls)
                      = <<"DescribeInstances", "DescribeInstanceAttribute", "ResolveImage">>
                 /\ calls[3].arg = e.ImageID
                 /\ (a.ImageID = e.ImageID) <=> (calls[3].res = instances[a.ID].image)
                 /\ (a.ImageID # e.ImageID) => (a.ImageID = instances[a.ID].image)
         /\ (ret = OK /\ a # Absent /\ (e.ImageID = Nil \/ instances[a.ID].image = e.ImageID))
              => (a.ImageID = instances[a.ID].image /\ Count(calls, "ResolveImage") = 0)

C8_Witness ==
    /\ last = "Find" /\ ret = OK /\ a # Absent
    /\ e.ImageID = "X"
    /\ instances[a.ID].image = "ami-2"
    /\ calls[3].res = "ami-2"
    /\ a.ImageID = "X"

C8_WitnessDrift ==
    /\ last = "Find" /\ ret = OK /\ a # Absent
    /\ e.ImageID = "X"
    /\ instances[a.ID].image = "ami-2"
    /\ calls[3].res \in {"ami-1", "notfound", "error"}
    /\ a.ImageID = "ami-2"

\* C9: on the create path a desired descriptor without image reference makes
\* RenderAWS return the required-field error for ImageID with no provider call
\* made, and the desired descriptor (its ID too) and the provider are unchanged.
C9_MissingImageID ==
    [][(RenderAWS /\ a = Absent /\ e.ImageID = Nil)
         => /\ ret' = ErrRequiredImageID
            /\ calls' = <<>>
            /\ NothingLaunched]_vars

C9_Witness ==
    /\ last = "RenderAWS" /\ a = Absent
    /\ e.ImageID = Nil
    /\ ret = ErrRequiredImageID
    /\ calls = <<>>

\* C10: CheckChanges returns the required-field error for Name exactly when an
\* actual descriptor exists and the desired name is absent; in every other case,
\* whatever the other fields and the delta, it returns success; it makes no
\* provider call and changes neither descriptor nor the provider.
C10_CheckChanges ==
    [][CheckChanges
         => /\ ret' \in {OK, ErrRequiredName}
            /\ (ret' = ErrRequiredName) <=> (a # Absent /\ e.Name = Nil)
            /\ calls' = <<>>
            /\ e' = e /\ a' = a /\ instances' = instances]_vars

C10_Witness ==
    /\ last = "CheckChanges" /\ ret = ErrRequiredName
    /\ a # Absent /\ e.Name = Nil

C10_WitnessCreate ==
    /\ last = "CheckChanges" /\ ret = OK
    /\ a = Absent /\ e.Name = Nil

\* C11: whenever Find reads the network attachments of the one listed instance, it
\* returns a descriptor whose public-address flag is true exactly when one of the
\* attachments carries a public address: for no attachment, for attachments with
\* no address association, for attachments whose association has no public address.
C11_PublicAddressFlag ==
    (last = "Find" /\ attachments # NotRead)
      => /\ ret = OK
         /\ a # Absent
         /\ (a.AssociatePublicIP = "true")
               <=> (\E k \in DOMAIN attachments : attachments[k] = "public")
         /\ a.AssociatePublicIP \in {"true", "false"}

\* C12: on the update path (an actual instance exists) RenderAWS makes one provider
\* call, the tag call on the ID the instance already has: no image resolution, no
\* run/create, e unchanged, no instance added and no property of an instance
\* changed, and the result of RenderAWS is the result of the tag call, whatever the
\* delta.
C12_UpdateOnlyTags ==
    [][(RenderAWS /\ a # Absent)
         => /\ e.ID # NoID
            /\ Len(calls') = 1
            /\ calls'[1].op = "AddAWSTags"
            /\ calls'[1].arg = ToString(e.ID)
            /\ ret' = IF calls'[1].res = "ok" THEN OK ELSE ErrTags
            /\ e' = e
            /\ request' = NoRequest
            /\ Len(instances') = Len(instances)
            /\ \A i \in IDs :
                 /\ instances'[i].state = instances[i].state
                 /\ instances'[i].image = instances[i].image
                 /\ instances'[i].type = instances[i].type
                 /\ instances'[i].userData = instances[i].userData]_vars

\* An update pass with a non-empty delta has ended with the tag call alone.
C12_Witness ==
    /\ last = "RenderAWS"
    /\ a # Absent
    /\ changes # {}
    /\ ret = OK
    /\ Ops(calls) = <<"AddAWSTags">>

\* An update pass whose tag call failed.
C12_WitnessTagError ==
    /\ last = "RenderAWS"
    /\ a # Absent
    /\ ret = ErrTags

\* C13: on the create path a payload of at most MaxUserDataSize bytes, one of
\* exactly MaxUserDataSize bytes included, is accepted and launched, and the Find
\* that follows decodes the stored text into the very bytes RenderAWS encoded.
C13_PayloadRoundTrip ==
    /\ (last = "RenderAWS" /\ Len(e.UserData) <= MaxUserDataSize)
         => /\ ret = OK
            /\ Len(instances) = 1
            /\ Len(request.UserData) = EncodedLen(Len(e.UserData))
    /\ last = "Find"
         => /\ ret = OK
            /\ a # Absent
            /\ a.UserData = e.UserData

\* A payload of exactly MaxUserDataSize bytes has gone through RenderAWS and Find.
C13_Witness ==
    /\ last = "Find"
    /\ Len(e.UserData) = MaxUserDataSize
    /\ a # Absent
    /\ a.UserData = e.UserData

\* A payload whose encoding is padded has gone through RenderAWS and Find.
C13_WitnessPadded ==
    /\ last = "Find"
    /\ e.UserData = <<250>>
    /\ request.UserData = <<"+", "g", "=", "=">>
    /\ a # Absent
    /\ a.UserData = e.UserData

\* C14: the reference TerraformLink returns is the one it returns for every
\* descriptor of the same name, whatever the other fields and the provider state;
\* TerraformLink makes no provider call and changes neither the descriptor nor the
\* provider state.
C14_TerraformLink ==
    [][TerraformLink
         => /\ \A d \in LinkDescriptors :
                 d.Name = e.Name => TerraformLinkResult(d) = ret'
            /\ \A d \in LinkDescriptors :
                 (d.Name # e.Name /\ d.Name # Nil) => TerraformLinkResult(d) # ret'
            /\ calls' = <<>>
            /\ e' = e
            /\ instances' = instances]_vars

\* TerraformLink has returned the reference of a descriptor whose ID is set, with an
\* instance at the provider.
C14_Witness ==
    /\ last = "TerraformLink"
    /\ e.Name = "node-1"
    /\ e.ID = 1
    /\ Len(instances) = 1
    /\ ret = "aws_instance.node-1.id"

\* C15: when the RunInstances call of the create path fails, RenderAWS returns the
\* error of that call, e (its ID included) is unchanged, no instance is launched,
\* the tag call is not made and RunInstances was called once.
C15_RunFailure ==
    [][(RenderAWS /\ a = Absent
          /\ \E k \in DOMAIN calls' : calls'[k].op = "RunInstances" /\ calls'[k].res = "error")
         => /\ ret' = ErrRun
            /\ e' = e
            /\ instances' = instances
            /\ Count(calls', "AddAWSTags") = 0
            /\ Count(calls', "RunInstances") = 1]_vars

\* A create pass has ended with the failure of RunInstances.
C15_Witness ==
    /\ last = "RenderAWS"
    /\ a = Absent
    /\ ret = ErrRun
    /\ Ops(calls) = <<"ResolveImage", "RunInstances">>
    /\ e.ID = NoID

\* C16: a Find whose list query fails, whose attribute query fails or whose
\* attribute value does not decode returns that error and no descriptor; a Find
\* whose attribute query answers that the instance has no startup payload returns a
\* descriptor without one.
C16_FindErrors ==
    last = "Find"
      => /\ calls[1].res = "error" => (ret = ErrList /\ a = Absent)
         /\ Len(calls) >= 2
              => /\ calls[2].res = "error" => (ret = ErrAttr /\ a = Absent)
                 /\ calls[2].res = "corrupt" => (ret = ErrDecode /\ a = Absent)
                 /\ \A i \in IDs :
                      (/\ calls[2].arg = ToString(i)
                       /\ calls[2].res = "stored"
                       /\ instances[i].userData = NoAttr)
                        => /\ ret = OK
                           /\ a # Absent
                           /\ a.ID = i
                           /\ a.UserData = NoUserData

\* C17: a Find that returns no descriptor (absent, or any error) leaves every field
\* of e as it was; a Find that returns a descriptor changes of e the ID alone, to
\* the ID of the descriptor; no Find changes the instances at the provider.
C17_FindFrame ==
    [][Find
         => /\ instances' = instances
            /\ a' = Absent => e' = e
            /\ a' # Absent => (ret' = OK /\ e' = [e EXCEPT !.ID = a'.ID])
            /\ ret' # OK => a' = Absent]_vars

\* Find has returned a descriptor, with drift in the image, and set the ID.
C17_Witness ==
    /\ last = "Find"
    /\ a # Absent
    /\ e.ID = a.ID
    /\ e.ImageID # a.ImageID

\* Find has failed on the attribute query of an instance and left the ID unset.
C17_WitnessError ==
    /\ last = "Find"
    /\ ret \in {ErrAttr, ErrDecode}
    /\ Len(calls) = 2
    /\ e.ID = NoID

\* C18: with passes one after the other and nobody else launching instances, from
\* a provider without instances, whatever calls fail and whatever is terminated, at
\* most one non-terminated instance carries a name, and no Find ends in the
\* multiplicity fault.
C18_AtMostOneMatch ==
    /\ \A n \in Names : Cardinality(LiveMatches(n)) <= 1
    /\ ret # ErrMultiple
    /\ e.Name # Nil => Len(DescribeInstances(e.Name, instances)) <= 1

\* After a pass whose tag call failed left an instance without tags, a later pass
\* has launched and tagged a second one, and Find has found that one.
C18_Witness ==
    /\ last = "Find"
    /\ Len(instances) = 2
    /\ instances[1].name = Nil
    /\ instances[1].state \in NonTerminated
    /\ LiveMatches("node-1") = {2}
    /\ a # Absent
    /\ a.ID = 2

\* C19: when RenderAWS returns, with success or with an error, the instance it
\* launched during the call carries the tags of e, the name among them, and is
\* listed by the filters of a Find for that name.
C19_LaunchedIsTagged ==
    [][(RenderAWS /\ Len(instances') > Len(instances))
         => \A i \in (Len(instances) + 1)..Len(instances') :
               /\ instances'[i].name = Tags(e)
               /\ BuildFilters(e.Name, instances'[i])
               /\ \E k \in DOMAIN DescribeInstances(e.Name, instances') :
                     DescribeInstances(e.Name, instances')[k] = i]_vars

\* C20: on the create path with an image reference (and a name), when ResolveImage answers with
\* no image and no error, RenderAWS returns an error, without a RunInstances call
\* and with e.ID unchanged; it does not end abnormally.
C20_ImageNotFound ==
    [][(RenderAWS /\ a = Absent /\ e.ImageID # Nil /\ e.Name # Nil
          /\ \E k \in DOMAIN calls' : calls'[k].op = "ResolveImage" /\ calls'[k].res = "notfound")
         => /\ ret' \notin {OK, Panic}
            /\ Count(calls', "RunInstances") = 0
            /\ e'.ID = e.ID
            /\ instances' = instances]_vars

====
